---- MODULE Spec2Model ----
(***************************************************************************)
(* The Leader aggregator of ppm-prototype (src/src/leader.rs) as a state   *)
(* machine.  The Leader's fields are the state; handle_upload (with the    *)
(* send_aggregate_request it may call) and handle_collect are the actions. *)
(* Both run under the Leader's mutex from entry to return, so each is one  *)
(* atomic step.  The Helper, the HPKE layer and the VDAF are environment:  *)
(* what they answer is drawn from small sets.                              *)
(***************************************************************************)
EXTENDS Bags, FiniteSets, Integers, Sequences, TLC

VARIABLES
    parameters,           \* Leader.parameters (immutable task parameters)
    hpke_config,          \* Leader.hpke_config
    unaggregated_inputs,  \* Leader.unaggregated_inputs
    accumulators,         \* Leader.accumulators
    helper_state,         \* Leader.helper_state (0 is the empty vec)
    request,              \* the request the last handler was given
    helper_request,       \* the message the last handler sent to the Helper
    helper_response,      \* what the Helper answered to it
    result,               \* what the last handler returned
    rounds,               \* history: number of /aggregate requests sent
    uploads,              \* history: number of uploads that returned Ok
    sent_inputs,          \* history: the queued entries already sent in a request
    answered_inputs,      \* history: those of them whose request got HTTP 200
    drawn,                \* history: per bucket, successful collects over it
    helper_state_received, \* history: helper_state of the last decoded /aggregate response
    codec,                \* a Report on its way through serde_json and back
    lock,                 \* the handler that holds the Leader's mutex, or NoHandler
    pc                    \* where each request handler of the server stands

vars == <<parameters, hpke_config, unaggregated_inputs, accumulators, helper_state,
          request, helper_request, helper_response, result, rounds, uploads,
          sent_inputs, answered_inputs, drawn, helper_state_received, codec, lock, pc>>

(***************************************************************************)
(* Bounds of the model.                                                    *)
(***************************************************************************)
MaxUploads == 11        \* accepted uploads per behaviour
MaxFaults == 1          \* anomalies in one decoded Helper /aggregate response
BatchDuration == 2      \* min_batch_duration of the task
MinBatchSize == 2       \* min_batch_size of the task
MaxBatchLifetime == 1   \* max_batch_lifetime of the task
MaxHandlers == 2        \* requests the server handles at the same time
TaskIdLen == 2          \* bytes of a TaskId on the wire
MaxRounds == 2          \* /aggregate requests per behaviour where collects come between rounds

\* leader.rs:224  `if self.unaggregated_inputs.len() >= 10`
UploadTrigger == 10

(***************************************************************************)
(* Inputs.                                                                 *)
(***************************************************************************)
\* The request handlers; NoHandler is the free mutex.
Handlers == 1..MaxHandlers
NoHandler == 0

OurTask == "task"
OtherTask == "other-task"
OurConfigId == "config"
StaleConfigId == "stale-config"

\* Two timestamps in adjacent batch windows, neither aligned to the batch
\* duration; the earlier time carries the larger nonce.
Timestamps ==
    { [time |-> BatchDuration + 1, nonce |-> 1],
      [time |-> 2 * BatchDuration + 1, nonce |-> 0] }

\* What opening and preparing the Leader's input share of a report yields.
LeaderShares == {"good", "undecryptable", "undecodable", "unpreparable"}

\* upload.rs:22-29.  aggregator_config_id and leader_share describe entry 0
\* of encrypted_input_shares, if there is one; encrypted_input_shares is the
\* length of the list.
Report(t, ts, c, s) ==
    [task_id |-> t, timestamp |-> ts, aggregator_config_id |-> c, leader_share |-> s,
     encrypted_input_shares |-> 2]

\* Role::index: Leader 0, Helper 1.
RoleIndex(role) == IF role = "Leader" THEN 0 ELSE 1

\* Reports: the well-formed ones at every timestamp, and at one timestamp the
\* ones with one defect or with two defects that adjacent checks would catch,
\* and the ones whose list of shares has no, one or three entries (the JSON
\* of a Report is decoded into a Vec of any length, upload.rs:28).
GoodReports == { Report(OurTask, ts, OurConfigId, "good") : ts \in Timestamps }

Reports ==
    GoodReports
    \cup { Report(t, [time |-> BatchDuration + 1, nonce |-> 1], c, s) :
              t \in {OurTask, OtherTask}, c \in {OurConfigId, StaleConfigId},
              s \in {"good", "undecryptable"} }
    \cup { Report(OurTask, [time |-> BatchDuration + 1, nonce |-> 1], OurConfigId, s) :
              s \in LeaderShares }
    \cup { [Report(t, [time |-> BatchDuration + 1, nonce |-> 1], OurConfigId, "good")
              EXCEPT !.encrypted_input_shares = n] :
              t \in {OurTask, OtherTask}, n \in {0, 1, 3} }

\* Three valid intervals, then the invalid ones: a start that is not a
\* multiple, a duration that is not a multiple, a duration below the batch
\* duration, a start that is not positive.
Intervals ==
    { [start |-> BatchDuration, duration |-> BatchDuration],
      [start |-> 2 * BatchDuration, duration |-> BatchDuration],
      [start |-> BatchDuration, duration |-> 2 * BatchDuration],
      [start |-> BatchDuration + 1, duration |-> BatchDuration],
      [start |-> BatchDuration, duration |-> BatchDuration + 1],
      [start |-> BatchDuration, duration |-> 0],
      [start |-> 0, duration |-> BatchDuration] }

CollectRequest(t, i) == [task_id |-> t, batch_interval |-> i]

\* Every interval for the task of the Leader; for another task, one valid
\* and one invalid interval.
CollectRequests ==
    { CollectRequest(OurTask, i) : i \in Intervals }
    \cup { CollectRequest(OtherTask, [start |-> BatchDuration, duration |-> d]) :
              d \in {BatchDuration, BatchDuration + 1} }

\* How an exchange with the Helper can end: send() fails; a non-success
\* status with or without a problem document; a success status with a body
\* that does not decode; a success status with a decoded body.
HelperOutcomes == {"unreachable", "problem", "status", "garbled", "decoded"}

NoInterval == [start |-> 0, duration |-> 0]

\* Verdicts on one Helper verification message: it decodes and the proof
\* finishes; prepare_finish fails; serde_json::from_slice fails;
\* prepare_preprocess fails.
Messages == {"valid", "invalidProof", "malformed", "unpreprocessable"}


(***************************************************************************)
(* Pure helpers.                                                           *)
(***************************************************************************)
Range(s) == { s[i] : i \in DOMAIN s }

SeqToBag(s) == [ e \in Range(s) |-> Cardinality({ i \in DOMAIN s : s[i] = e }) ]

\* Ord for Timestamp: time ascending, nonce ascending as tiebreak.
TimestampLess(a, b) ==
    \/ a.time < b.time
    \/ a.time = b.time /\ a.nonce < b.nonce

\* Ord for StoredInputShare compares the timestamps only.
StoredInputLeq(a, b) == ~TimestampLess(b.timestamp, a.timestamp)

\* Time::interval_start: the start of the batch window holding `time`.
IntervalStart(time, min_batch_duration) == time - (time % min_batch_duration)

\* Parameters::validate_batch_interval
ValidateBatchInterval(p, i) ==
    /\ i.start > 0
    /\ i.start % p.min_batch_duration = 0
    /\ i.duration % p.min_batch_duration = 0
    /\ i.duration >= p.min_batch_duration

\* Interval::min_intervals_in_interval
MinIntervalsInInterval(i, min_batch_duration) == i.duration \div min_batch_duration

\* slice::sort_unstable: the result is sorted and holds the same elements;
\* the order of elements that compare equal is not specified.
RECURSIVE SortedArrangements(_)
SortedArrangements(B) ==
    IF BagToSet(B) = {} THEN { <<>> }
    ELSE LET S == BagToSet(B)
             least == { e \in S : \A f \in S : StoredInputLeq(e, f) }
         IN UNION { { <<e>> \o t : t \in SortedArrangements(B (-) SetToBag({e})) } :
                      e \in least }

SortUnstable(s) == SortedArrangements(SeqToBag(s))

(***************************************************************************)
(* What the last handler left behind for an observer.                      *)
(***************************************************************************)
NoReport == Report(OurTask, [time |-> 0, nonce |-> 0], OurConfigId, "good")
NoCollectRequest == CollectRequest(OurTask, NoInterval)
NoRequest == [op |-> "none", report |-> NoReport, collect_request |-> NoCollectRequest]
NoHelperRequest ==
    [endpoint |-> "none", task_id |-> OurTask, batch_interval |-> NoInterval,
     helper_state |-> 0, sub_requests |-> <<>>]
NoHelperResponse == [outcome |-> "none", helper_state |-> 0, sub_responses |-> <<>>]
NoOutputShare == [sum |-> EmptyBag, contributions |-> 0]

\* leader.rs:79-96: the problem document type of an Error, "None" for the
\* variants of the wildcard arm.
ProblemDocumentType(error) ==
    CASE error \in {"JsonParse", "Encryption"} -> "unrecognizedMessage"
      [] error = "UnrecognizedTask" -> "unrecognizedTask"
      [] error = "UnknownHpkeConfig" -> "outdatedConfig"
      [] error = "InvalidBatchInterval" -> "invalidBatchInterval"
      [] error = "InsufficientBatchSize" -> "insufficientBatchSize"
      [] error = "PrivacyBudgetExceeded" -> "privacyBudgetExceeded"
      [] error \in {"HelperError", "HelperHttpRequest"} -> "helperError"
      [] OTHER -> "None"

\* error.rs:41-56: BAD_REQUEST with the type of the error if it has one,
\* INTERNAL_SERVER_ERROR with unknownError if not.
ProblemDocument(error) ==
    IF ProblemDocumentType(error) # "None"
    THEN [status |-> 400, kind |-> ProblemDocumentType(error)]
    ELSE [status |-> 500, kind |-> "unknownError"]

\* The reply to a handler that returned Ok (leader.rs:494, 510).
OkReply == [status |-> 200, kind |-> "none"]

\* No reply: the handler has not returned, or it unwound.
NoReply == [status |-> 0, kind |-> "none"]

\* value: Ok or the Error variant the handler returned ("Panic" when it
\* unwound, "Pending" while it awaits the Helper); round: "NotRun", or Ok or
\* the Error variant that send_aggregate_request returned to handle_upload;
\* total: the payload of InsufficientBatchSize; output_share: the Leader's
\* OutputShare sealed into the CollectResponse; problem: the status and the
\* problem document of the reply the route builds (leader.rs:493-498,
\* 509-514).
Result(value, round, total, share) ==
    [value |-> value, round |-> round, total |-> total, output_share |-> share,
     problem |-> IF value = "Ok" THEN OkReply
                 ELSE IF value \in {"Pending", "Panic"} THEN NoReply
                 ELSE ProblemDocument(value)]

(***************************************************************************)
(* handle_upload, up to the push.                                          *)
(***************************************************************************)
\* Mutant of ValidateUpload: the config id is looked at before the task.
ValidateUpload_ConfigFirst(p, cfg, report) ==
    IF RoleIndex("Leader") >= report.encrypted_input_shares THEN "Panic"
    ELSE IF report.aggregator_config_id # cfg.id THEN "UnknownHpkeConfig"
    ELSE IF report.task_id # p.task_id THEN "UnrecognizedTask"
    ELSE IF report.leader_share = "undecryptable" THEN "Encryption"
    ELSE IF report.leader_share = "undecodable" THEN "JsonParse"
    ELSE IF report.leader_share = "unpreparable" THEN "Vdaf"
    ELSE IF RoleIndex("Helper") >= report.encrypted_input_shares THEN "Panic"
    ELSE "Ok"

\* leader.rs:175-207: the checks of a report in the order of the code.
\* Indexing the Vec out of bounds (lines 179 and 213) panics.
ValidateUpload(p, cfg, report) ==
    IF report.task_id # p.task_id THEN "UnrecognizedTask"
    ELSE IF RoleIndex("Leader") >= report.encrypted_input_shares THEN "Panic"
    ELSE IF report.aggregator_config_id # cfg.id THEN "UnknownHpkeConfig"
    ELSE IF report.leader_share = "undecryptable" THEN "Encryption"
    ELSE IF report.leader_share = "undecodable" THEN "JsonParse"
    ELSE IF report.leader_share = "unpreparable" THEN "Vdaf"
    ELSE IF RoleIndex("Helper") >= report.encrypted_input_shares THEN "Panic"
    ELSE "Ok"

\* leader.rs:209-215.  The prepare state, the verifier message, the Helper's
\* share and the extensions ride along untouched; what the Helper makes of
\* them is in its response.
StoredInputShare(report) == [timestamp |-> report.timestamp]

\* leader.rs:209-218: push, then sort_unstable.
PushSorted(inputs, entry) == SortUnstable(Append(inputs, entry))

(***************************************************************************)
(* send_aggregate_request.                                                 *)
(***************************************************************************)
\* leader.rs:242-253
SubRequests(inputs) ==
    [ i \in DOMAIN inputs |-> [timestamp |-> inputs[i].timestamp] ]

\* leader.rs:255-260
VerifyStartRequest(p, hs, inputs) ==
    [endpoint |-> "aggregate", task_id |-> p.task_id, batch_interval |-> NoInterval,
     helper_state |-> hs, sub_requests |-> SubRequests(inputs)]

\* Mutant of TakeInputs: the queue is cloned, not taken.
TakeInputs_Cloned(inputs) == inputs

\* leader.rs:282: mem::take leaves the empty vec behind.
TakeInputs(inputs) == <<>>

\* Mutant of InputsAfter: the queue is taken before the request is sent.
InputsAfter_TakenFirst(inputs, outcome) == TakeInputs(inputs)

\* leader.rs:262-282: the queue once the response is in.  send() failing and
\* a non-success status return before the take; a success status takes the
\* queue before the body is decoded.
InputsAfter(inputs, outcome) ==
    IF outcome \in {"unreachable", "problem", "status"} THEN inputs
    ELSE TakeInputs(inputs)

\* leader.rs:344-359: sum the output share of `input` into the accumulator of
\* its batch window.  The aggregate share is the bag of the timestamps whose
\* output shares were added (the free commutative monoid over reports).
Accumulate(accs, interval_start, input) ==
    IF interval_start \in DOMAIN accs
    THEN [accs EXCEPT ![interval_start] =
              [accumulated |-> @.accumulated (+) SetToBag({input.timestamp}),
               contributions |-> @.contributions + 1,
               privacy_budget |-> @.privacy_budget]]
    ELSE accs @@ (interval_start :>
              [accumulated |-> SetToBag({input.timestamp}),
               contributions |-> 1,
               privacy_budget |-> 0])

\* Mutant of BucketOf: the time of the report is the key.
BucketOf_Time(p, leader_input) == leader_input.timestamp.time

\* leader.rs:311-314: the batch window of a report.
BucketOf(p, leader_input) == IntervalStart(leader_input.timestamp.time, p.min_batch_duration)

\* Mutant of ProofFailed: the failure is returned like the other errors.
ProofFailed_Returned(accs, rest) == [accumulators |-> accs, error |-> "Vdaf"]

\* leader.rs:331-339: prepare_finish failed for one report: warn and
\* `continue` with the remaining pairs, whose outcome is `rest`.
ProofFailed(accs, rest) == rest

\* leader.rs:294-360: the loop over the zipped pairs, from pair i on.
RECURSIVE VerifyPairs(_, _, _, _, _)
VerifyPairs(p, accs, leader_inputs, sub_responses, i) ==
    IF i > Len(leader_inputs) \/ i > Len(sub_responses)
    THEN [accumulators |-> accs, error |-> "Ok"]
    ELSE LET leader_input == leader_inputs[i]
             helper_response_i == sub_responses[i]
             rest(a) == VerifyPairs(p, a, leader_inputs, sub_responses, i + 1)
         IN IF leader_input.timestamp # helper_response_i.timestamp
            THEN [accumulators |-> accs, error |-> "AggregateProtocol"]
            ELSE IF helper_response_i.verification_message = "malformed"
            THEN [accumulators |-> accs, error |-> "JsonParse"]
            ELSE IF helper_response_i.verification_message = "unpreprocessable"
            THEN [accumulators |-> accs, error |-> "Vdaf"]
            ELSE IF helper_response_i.verification_message = "invalidProof"
            THEN ProofFailed(accs, rest(accs))
            ELSE rest(Accumulate(accs, BucketOf(p, leader_input), leader_input))

\* leader.rs:262-366: the request is built from `inputs`, the whole queue;
\* `response` is what came back.  Yields the Leader's fields and the Result.
SendAggregateRequest(p, inputs, accs, hs, response) ==
    LET out(q, a, h, e) ==
            [unaggregated_inputs |-> q, accumulators |-> a, helper_state |-> h, error |-> e]
        kept == InputsAfter(inputs, response.outcome)
    IN  IF response.outcome = "unreachable" THEN out(kept, accs, hs, "HttpClient")
        ELSE IF response.outcome = "problem" THEN out(kept, accs, hs, "HelperError")
        ELSE IF response.outcome = "status" THEN out(kept, accs, hs, "HelperHttpRequest")
        ELSE LET leader_inputs == inputs
                 left == InputsAfter(inputs, response.outcome)
             IN IF response.outcome = "garbled" THEN out(left, accs, hs, "HttpClient")
                ELSE IF Len(leader_inputs) # Len(response.sub_responses)
                THEN out(left, accs, hs, "AggregateProtocol")
                ELSE LET v == VerifyPairs(p, accs, leader_inputs, response.sub_responses, 1)
                     IN IF v.error # "Ok" THEN out(left, v.accumulators, hs, v.error)
                        ELSE out(left, v.accumulators, response.helper_state, "Ok")

(***************************************************************************)
(* The Helper's answers to an /aggregate request.                          *)
(***************************************************************************)
\* The sub-responses an honest Helper gives to the timestamps `ts`.
Faithful(ts) == [ i \in DOMAIN ts |-> [timestamp |-> ts[i], verification_message |-> "valid"] ]

\* One anomaly at position i of `subs`: a verification message that is not
\* valid, or another timestamp (the next nonce).
Anomalies(subs, i) ==
    { [subs EXCEPT ![i].verification_message = m] : m \in Messages \ {"valid"} }
    \cup { [subs EXCEPT ![i].timestamp.nonce = @ + 1] }

\* `subs` with one more anomaly: at a position, or in the count.
OneMoreAnomaly(subs) ==
    (UNION { Anomalies(subs, i) : i \in DOMAIN subs })
    \cup (IF subs = <<>> THEN {} ELSE { SubSeq(subs, 1, Len(subs) - 1), Append(subs, subs[Len(subs)]) })

\* The sets reached from S by at most k further anomalies.
RECURSIVE WithAnomalies(_, _)
WithAnomalies(S, k) ==
    IF k = 0 THEN S
    ELSE WithAnomalies(S \cup UNION { OneMoreAnomaly(subs) : subs \in S }, k - 1)

\* The decoded bodies: at most `faults` anomalies away from the faithful one.
SubResponses(ts, faults) == WithAnomalies({ Faithful(ts) }, faults)

Response(outcome, hs, subs) == [outcome |-> outcome, helper_state |-> hs, sub_responses |-> subs]

\* The Helper hands out a fresh state with every decoded response.
AggregateResponses(sent, faults) ==
    { Response(o, 0, <<>>) : o \in HelperOutcomes \ {"decoded"} }
    \cup { Response("decoded", rounds + 1, subs) :
              subs \in SubResponses([ i \in DOMAIN sent.sub_requests |->
                                        sent.sub_requests[i].timestamp ], faults) }

(***************************************************************************)
(* upload.rs: a Report and its JSON.  A JSON text is its value: a number,  *)
(* a string, an array or an object, tagged with its kind.  Times and       *)
(* nonces are u64; the ones drawn here are small.                          *)
(***************************************************************************)
JNum(n) == [t |-> "number", v |-> n]
JStr(str) == [t |-> "string", v |-> str]
JArr(items) == [t |-> "array", v |-> items]
JObj(fields) == [t |-> "object", v |-> fields]

\* upload.rs:61-65: the variants of ReportExtensionType.
ExtensionTypes == {"AuthenticationInformation", "MaximumExtensionType"}

\* serde_json::to_string of the fields of a Report (derive(Serialize)).
U64ToJson(n) == JNum(n)

VecU8ToJson(bytes) == JArr([ i \in 1..Len(bytes) |-> JNum(bytes[i]) ])

\* A TaskId is a fixed array of bytes: an array of numbers.
TaskIdToJson(task_id) == JArr([ i \in 1..Len(task_id) |-> JNum(task_id[i]) ])

\* Mutant of ExtensionTypeToJson: the discriminant is written.
ExtensionTypeToJson_Discriminant(extension_type) ==
    JNum(IF extension_type = "AuthenticationInformation" THEN 1 ELSE 65535)

\* upload.rs:61-62: a unit variant is written as the string of its name.
ExtensionTypeToJson(extension_type) == JStr(extension_type)

\* upload.rs:53-58
ReportExtensionToJson(extension) ==
    JObj([extension_type |-> ExtensionTypeToJson(extension.extension_type),
          extension_data |-> VecU8ToJson(extension.extension_data)])

\* upload.rs:69-77: encapsulated_context is renamed to "enc".
EncryptedInputShareToJson(share) ==
    JObj([config_id |-> JNum(share.config_id),
          enc |-> VecU8ToJson(share.encapsulated_context),
          payload |-> VecU8ToJson(share.payload)])

\* upload.rs:22-29
ReportToJson(report) ==
    JObj([task_id |-> TaskIdToJson(report.task_id),
          time |-> U64ToJson(report.time),
          nonce |-> U64ToJson(report.nonce),
          extensions |-> JArr([ i \in 1..Len(report.extensions) |->
                                  ReportExtensionToJson(report.extensions[i]) ]),
          encrypted_input_shares |->
              JArr([ i \in 1..Len(report.encrypted_input_shares) |->
                       EncryptedInputShareToJson(report.encrypted_input_shares[i]) ])])

\* What a deserializer returns.
ParseOk(value) == [ok |-> TRUE, value |-> value]
ParseError == [ok |-> FALSE, value |-> "JsonParse"]

\* serde_json::from_reader of the fields of a Report (derive(Deserialize)):
\* a field that is missing or of another type is an error, a field that is
\* not known is skipped.
U64FromJson(json) ==
    IF json.t = "number" /\ json.v >= 0 THEN ParseOk(json.v) ELSE ParseError

U8FromJson(json) ==
    IF json.t = "number" /\ json.v >= 0 /\ json.v <= 255 THEN ParseOk(json.v) ELSE ParseError

\* Vec<u8>: an array all of whose items parse.
VecU8FromJson(json) ==
    IF json.t = "array" /\ \A i \in 1..Len(json.v) : U8FromJson(json.v[i]).ok
    THEN ParseOk([ i \in 1..Len(json.v) |-> U8FromJson(json.v[i]).value ])
    ELSE ParseError

TaskIdFromJson(json) ==
    LET bytes == VecU8FromJson(json) IN
    IF bytes.ok /\ Len(bytes.value) = TaskIdLen THEN bytes ELSE ParseError

ExtensionTypeFromJson(json) ==
    IF json.t = "string" /\ json.v \in ExtensionTypes THEN ParseOk(json.v) ELSE ParseError

HasFields(json, names) == json.t = "object" /\ names \subseteq DOMAIN json.v

ReportExtensionFromJson(json) ==
    IF ~HasFields(json, {"extension_type", "extension_data"}) THEN ParseError
    ELSE LET extension_type == ExtensionTypeFromJson(json.v.extension_type)
             extension_data == VecU8FromJson(json.v.extension_data)
         IN IF extension_type.ok /\ extension_data.ok
            THEN ParseOk([extension_type |-> extension_type.value,
                          extension_data |-> extension_data.value])
            ELSE ParseError

EncryptedInputShareFromJson(json) ==
    IF ~HasFields(json, {"config_id", "enc", "payload"}) THEN ParseError
    ELSE LET config_id == U8FromJson(json.v.config_id)
             enc == VecU8FromJson(json.v.enc)
             payload == VecU8FromJson(json.v.payload)
         IN IF config_id.ok /\ enc.ok /\ payload.ok
            THEN ParseOk([config_id |-> config_id.value,
                          encapsulated_context |-> enc.value,
                          payload |-> payload.value])
            ELSE ParseError

\* upload.rs:27: Vec<ReportExtension>
ExtensionsFromJson(json) ==
    IF json.t = "array" /\ \A i \in 1..Len(json.v) : ReportExtensionFromJson(json.v[i]).ok
    THEN ParseOk([ i \in 1..Len(json.v) |-> ReportExtensionFromJson(json.v[i]).value ])
    ELSE ParseError

\* upload.rs:28: Vec<EncryptedInputShare>
EncryptedInputSharesFromJson(json) ==
    IF json.t = "array" /\ \A i \in 1..Len(json.v) : EncryptedInputShareFromJson(json.v[i]).ok
    THEN ParseOk([ i \in 1..Len(json.v) |-> EncryptedInputShareFromJson(json.v[i]).value ])
    ELSE ParseError

\* Report::from_json_reader, upload.rs:34-36
FromJsonReader(json) ==
    IF ~HasFields(json, {"task_id", "time", "nonce", "extensions", "encrypted_input_shares"})
    THEN ParseError
    ELSE LET task_id == TaskIdFromJson(json.v.task_id)
             time == U64FromJson(json.v.time)
             nonce == U64FromJson(json.v.nonce)
             extensions == ExtensionsFromJson(json.v.extensions)
             shares == EncryptedInputSharesFromJson(json.v.encrypted_input_shares)
         IN IF task_id.ok /\ time.ok /\ nonce.ok /\ extensions.ok /\ shares.ok
            THEN ParseOk([task_id |-> task_id.value, time |-> time.value,
                          nonce |-> nonce.value, extensions |-> extensions.value,
                          encrypted_input_shares |-> shares.value])
            ELSE ParseError

\* The Reports that are encoded: every combination of two task ids per
\* byte, the time and nonce of tests::report_json_parse or zero, no, one or
\* two extensions, and no, one or two shares.
WireReport(task_id, time, nonce, extensions, shares) ==
    [task_id |-> task_id, time |-> time, nonce |-> nonce, extensions |-> extensions,
     encrypted_input_shares |-> shares]

WireTaskIds == [ 1..TaskIdLen -> {0, 255} ]

WireExtensions ==
    LET authentication == [extension_type |-> "AuthenticationInformation",
                           extension_data |-> <<0, 1, 2>>]
        maximum == [extension_type |-> "MaximumExtensionType", extension_data |-> <<>>]
    IN { <<>>, <<authentication>>, <<maximum, authentication>> }

WireShares ==
    LET leader == [config_id |-> 1, encapsulated_context |-> <<0, 1>>, payload |-> <<255>>]
        helper == [config_id |-> 255, encapsulated_context |-> <<>>, payload |-> <<0, 8>>]
    IN { <<>>, <<leader>>, <<leader, helper>> }

WireReports ==
    { WireReport(task_id, time, nonce, extensions, shares) :
        task_id \in WireTaskIds, time \in {0, 1001}, nonce \in {0, 100},
        extensions \in WireExtensions, shares \in WireShares }

NoWireReport == WireReport(<<>>, 0, 0, <<>>, <<>>)

\* Bodies that no Report encodes to: the JSON of a Report with a field
\* left out, with the context under its Rust name, with the extension type
\* as a number, with a config id beyond u8, with a short task id, and an
\* array.
ForeignBodies ==
    LET report == WireReport([ i \in 1..TaskIdLen |-> 0 ], 1001, 100,
                             <<[extension_type |-> "AuthenticationInformation",
                                extension_data |-> <<0, 1, 2>>]>>,
                             <<[config_id |-> 1, encapsulated_context |-> <<0, 1>>,
                                payload |-> <<255>>]>>)
        json == ReportToJson(report)
        share == json.v.encrypted_input_shares.v[1]
        extension == json.v.extensions.v[1]
    IN { JObj([ name \in DOMAIN json.v \ {"nonce"} |-> json.v[name] ]),
         JObj([json.v EXCEPT !.encrypted_input_shares =
                  JArr(<<JObj([config_id |-> share.v.config_id,
                               encapsulated_context |-> share.v.enc,
                               payload |-> share.v.payload])>>)]),
         JObj([json.v EXCEPT !.extensions =
                  JArr(<<JObj([extension.v EXCEPT !.extension_type = JNum(1)])>>)]),
         JObj([json.v EXCEPT !.encrypted_input_shares =
                  JArr(<<JObj([share.v EXCEPT !.config_id = JNum(256)])>>)]),
         JObj([json.v EXCEPT !.task_id = JArr(<<JNum(0)>>)]),
         JArr(<<json>>) }

NotParsed == [ok |-> FALSE, value |-> "NotRun"]
NoCodec == [stage |-> "none", report |-> NoWireReport, json |-> JStr(""), parsed |-> NotParsed]

(***************************************************************************)
(* The state machine.                                                      *)
(***************************************************************************)
BucketKeys == { IntervalStart(ts.time, BatchDuration) : ts \in Timestamps }

\* The task of the scenarios: min_batch_size 2, max_batch_lifetime 1.
TaskParameters ==
    [task_id |-> OurTask, min_batch_duration |-> BatchDuration,
     min_batch_size |-> MinBatchSize, max_batch_lifetime |-> MaxBatchLifetime]

\* Leader::new, leader.rs:158-169
Init ==
    /\ parameters = TaskParameters
    /\ hpke_config = [id |-> OurConfigId]
    /\ unaggregated_inputs = <<>>
    /\ accumulators = <<>>
    /\ helper_state = 0
    /\ request = NoRequest
    /\ helper_request = NoHelperRequest
    /\ helper_response = NoHelperResponse
    /\ result = Result("Ok", "NotRun", 0, NoOutputShare)
    /\ rounds = 0
    /\ uploads = 0
    /\ sent_inputs = EmptyBag
    /\ answered_inputs = EmptyBag
    /\ drawn = [ k \in BucketKeys |-> 0 ]
    /\ helper_state_received = 0
    /\ codec = NoCodec
    /\ lock = NoHandler
    /\ pc = [ h \in Handlers |-> "idle" ]

\* Mutant of RoundDue: the round waits for one entry more.
RoundDue_Above(inputs) == Len(inputs) > UploadTrigger

\* leader.rs:224: the queue, with the new entry in it, has 10 entries or more.
RoundDue(inputs) == Len(inputs) >= UploadTrigger

\* Mutant of SwallowRoundError: the error of the round is returned.
SwallowRoundError_Returned(round_error) == round_error

\* leader.rs:229-237: `if let Err(e)` logs the error of the round; the
\* handler then returns Ok(()).
SwallowRoundError(round_error) == "Ok"

\* handle_upload, leader.rs:172-238, with the send_aggregate_request it awaits,
\* from the lock() of the route to its return as one step.
\* `faults` bounds the anomalies of the Helper's response.
HandleUpload(report, faults) ==
    LET error == ValidateUpload(parameters, hpke_config, report) IN
    /\ lock = NoHandler
    /\ request' = [op |-> "upload", report |-> report, collect_request |-> NoCollectRequest]
    /\ UNCHANGED <<parameters, hpke_config, drawn, codec, lock, pc>>
    /\ IF error # "Ok"
       THEN /\ result' = Result(error, "NotRun", 0, NoOutputShare)
            /\ helper_request' = NoHelperRequest
            /\ helper_response' = NoHelperResponse
            /\ UNCHANGED <<unaggregated_inputs, accumulators, helper_state, rounds,
                           uploads, sent_inputs, answered_inputs, helper_state_received>>
       ELSE /\ uploads' = uploads + 1
            /\ \E inputs \in PushSorted(unaggregated_inputs, StoredInputShare(report)) :
                 IF RoundDue(inputs)
                 THEN LET sent == VerifyStartRequest(parameters, helper_state, inputs) IN
                      \E response \in AggregateResponses(sent, faults) :
                        LET out == SendAggregateRequest(parameters, inputs, accumulators,
                                                        helper_state, response)
                        IN /\ helper_request' = sent
                           /\ helper_response' = response
                           /\ rounds' = rounds + 1
                           /\ unaggregated_inputs' = out.unaggregated_inputs
                           /\ accumulators' = out.accumulators
                           /\ helper_state' = out.helper_state
                           /\ sent_inputs' = SeqToBag(out.unaggregated_inputs)
                           /\ answered_inputs' =
                                 IF response.outcome \in {"garbled", "decoded"}
                                 THEN SeqToBag(out.unaggregated_inputs)
                                 ELSE answered_inputs
                           /\ helper_state_received' =
                                 IF response.outcome = "decoded"
                                 THEN response.helper_state
                                 ELSE helper_state_received
                           /\ result' = Result(SwallowRoundError(out.error), out.error, 0, NoOutputShare)
                 ELSE /\ unaggregated_inputs' = inputs
                      /\ helper_request' = NoHelperRequest
                      /\ helper_response' = NoHelperResponse
                      /\ result' = Result("Ok", "NotRun", 0, NoOutputShare)
                      /\ UNCHANGED <<accumulators, helper_state, rounds, sent_inputs,
                                     answered_inputs, helper_state_received>>

(***************************************************************************)
(* handle_collect.                                                         *)
(***************************************************************************)
\* leader.rs:385-389
OutputShareRequest(collect_request, hs) ==
    [endpoint |-> "output_share", task_id |-> collect_request.task_id,
     batch_interval |-> collect_request.batch_interval, helper_state |-> hs,
     sub_requests |-> <<>>]

\* Mutant of BudgetExhausted: the comparison is off by one.
BudgetExhausted_OffByOne(p, accumulator) == accumulator.privacy_budget > p.max_batch_lifetime

\* leader.rs:423: the budget of a present bucket is used up.
BudgetExhausted(p, accumulator) == accumulator.privacy_budget = p.max_batch_lifetime

\* leader.rs:426-429: draw one present bucket.
Charge(accumulator) == [accumulator EXCEPT !.privacy_budget = @ + 1]

\* leader.rs:416-440: the loop over the batch windows of the request, from
\* window i on.  drawn_keys lists the windows drawn so far.
RECURSIVE ChargeIntervals(_, _, _, _, _, _, _)
ChargeIntervals(p, accs, aggregate_shares, total_contributions, first_interval, n, i) ==
    IF i >= n
    THEN [accumulators |-> accs, aggregate_shares |-> aggregate_shares,
          total_contributions |-> total_contributions, error |-> "Ok"]
    ELSE LET interval_start == first_interval + i * p.min_batch_duration IN
         IF interval_start \in DOMAIN accs
         THEN IF BudgetExhausted(p, accs[interval_start])
              THEN [accumulators |-> accs, aggregate_shares |-> aggregate_shares,
                    total_contributions |-> total_contributions,
                    error |-> "PrivacyBudgetExceeded"]
              ELSE ChargeIntervals(p,
                     [accs EXCEPT ![interval_start] = Charge(@)],
                     Append(aggregate_shares, accs[interval_start].accumulated),
                     total_contributions + accs[interval_start].contributions,
                     first_interval, n, i + 1)
         ELSE ChargeIntervals(p, accs, aggregate_shares, total_contributions,
                              first_interval, n, i + 1)

\* Mutant of MergeShares: the remaining snapshots are not merged in.
MergeShares_FirstOnly(aggregate_shares) == aggregate_shares[1]

\* leader.rs:446-450: merge the snapshots into the first one.
RECURSIVE MergeShares(_)
MergeShares(aggregate_shares) ==
    IF Len(aggregate_shares) = 1 THEN aggregate_shares[1]
    ELSE aggregate_shares[1] (+) MergeShares(Tail(aggregate_shares))

\* Mutant of CollectRejection: the interval is not looked at.
CollectRejection_Skipped(p, collect_request) == "Ok"

\* leader.rs:374-379: the first check of handle_collect.
CollectRejection(p, collect_request) ==
    IF ~ValidateBatchInterval(p, collect_request.batch_interval)
    THEN "InvalidBatchInterval"
    ELSE "Ok"

\* Mutant of OutputShareError: a failed exchange is not noticed.
OutputShareError_Ignored(outcome) == "Ok"

\* leader.rs:391-406: how the exchange with the Helper ends for the handler.
OutputShareError(outcome) ==
    CASE outcome = "unreachable" -> "HttpClient"
      [] outcome = "problem" -> "HelperError"
      [] outcome = "status" -> "HelperHttpRequest"
      [] outcome = "garbled" -> "HttpClient"
      [] outcome = "decoded" -> "Ok"

\* Mutant of InsufficientBatch: the charges of the request are rolled back.
InsufficientBatch_RolledBack(accs, charged, total_contributions) ==
    [accumulators |-> accs,
     result |-> Result("InsufficientBatchSize", "NotRun", total_contributions, NoOutputShare)]

\* leader.rs:442-444: the batch is too small; the windows stay charged.
InsufficientBatch(accs, charged, total_contributions) ==
    [accumulators |-> charged,
     result |-> Result("InsufficientBatchSize", "NotRun", total_contributions, NoOutputShare)]

\* leader.rs:408-476: the rest of the handler once the Helper's share is in.
\* split_off(1) panics on the empty vec.
CollectShares(p, accs, collect_request) ==
    LET first_interval ==
            IntervalStart(collect_request.batch_interval.start, p.min_batch_duration)
        n == MinIntervalsInInterval(collect_request.batch_interval, p.min_batch_duration)
        c == ChargeIntervals(p, accs, <<>>, 0, first_interval, n, 0)
    IN  IF c.error # "Ok"
        THEN [accumulators |-> c.accumulators,
              result |-> Result(c.error, "NotRun", 0, NoOutputShare)]
        ELSE IF c.total_contributions < p.min_batch_size
        THEN InsufficientBatch(accs, c.accumulators, c.total_contributions)
        ELSE IF c.aggregate_shares = <<>>
        THEN [accumulators |-> c.accumulators,
              result |-> Result("Panic", "NotRun", 0, NoOutputShare)]
        ELSE [accumulators |-> c.accumulators,
              result |-> Result("Ok", "NotRun", 0,
                                [sum |-> MergeShares(c.aggregate_shares),
                                 contributions |-> c.total_contributions])]

\* The present windows of a valid interval.
PresentKeys(p, accs, interval) ==
    { k \in DOMAIN accs :
        \E i \in 0..(MinIntervalsInInterval(interval, p.min_batch_duration) - 1) :
            k = IntervalStart(interval.start, p.min_batch_duration) + i * p.min_batch_duration }

\* handle_collect, leader.rs:370-476, from the lock() of the route to its
\* return as one step.  `outcome` is how the Helper's /output_share ends.
HandleCollect(collect_request, outcome) ==
    LET rejection == CollectRejection(parameters, collect_request) IN
    /\ lock = NoHandler
    /\ request' = [op |-> "collect", report |-> NoReport, collect_request |-> collect_request]
    /\ UNCHANGED <<parameters, hpke_config, unaggregated_inputs, helper_state, rounds,
                   uploads, sent_inputs, answered_inputs, helper_state_received, codec,
                   lock, pc>>
    /\ IF rejection # "Ok"
       THEN /\ outcome = "decoded"   \* the Helper is not asked: one step, not five
            /\ result' = Result(rejection, "NotRun", 0, NoOutputShare)
            /\ helper_request' = NoHelperRequest
            /\ helper_response' = NoHelperResponse
            /\ UNCHANGED <<accumulators, drawn>>
       ELSE /\ helper_request' = OutputShareRequest(collect_request, helper_state)
            /\ helper_response' = Response(outcome, 0, <<>>)
            /\ IF OutputShareError(outcome) # "Ok"
               THEN /\ result' = Result(OutputShareError(outcome), "NotRun", 0, NoOutputShare)
                    /\ UNCHANGED <<accumulators, drawn>>
               ELSE LET out == CollectShares(parameters, accumulators, collect_request) IN
                    /\ accumulators' = out.accumulators
                    /\ result' = out.result
                    /\ drawn' = IF out.result.value = "Ok"
                                THEN [ k \in DOMAIN drawn |->
                                         IF k \in PresentKeys(parameters, accumulators,
                                                              collect_request.batch_interval)
                                         THEN drawn[k] + 1 ELSE drawn[k] ]
                                ELSE drawn

\* Uploads of well-formed reports and the rounds they trigger.
NextRounds ==
    \E report \in GoodReports :
        /\ uploads < MaxUploads
        /\ HandleUpload(report, MaxFaults)

SpecRounds == Init /\ [][NextRounds]_vars

\* Uploads of all reports, well-formed or not, up to the first round.
NextUploads ==
    \E report \in Reports :
        /\ uploads < UploadTrigger
        /\ HandleUpload(report, MaxFaults)

SpecUploads == Init /\ [][NextUploads]_vars

\* Uploads of well-formed reports up to the first round, and collects.
NextCollect ==
    \/ \E report \in GoodReports :
          /\ uploads < UploadTrigger
          /\ HandleUpload(report, MaxFaults)
    \/ \E collect_request \in CollectRequests, outcome \in HelperOutcomes :
          HandleCollect(collect_request, outcome)

SpecCollect == Init /\ [][NextCollect]_vars

\* Uploads of well-formed reports through MaxRounds rounds that the Helper
\* answers faithfully or not at all, and collects at any time between them.
NextLate ==
    \/ \E report \in GoodReports :
          /\ rounds < MaxRounds
          /\ HandleUpload(report, 0)
    \/ \E collect_request \in CollectRequests, outcome \in HelperOutcomes :
          HandleCollect(collect_request, outcome)

SpecLate == Init /\ [][NextLate]_vars

\* Leader::new, leader.rs:158-169, clones whatever Parameters it is given:
\* min_batch_size is a u64 (it is compared with the u64 total at line 442),
\* so a task may set it to 0.
InitAnyBatchSize ==
    /\ parameters \in { [TaskParameters EXCEPT !.min_batch_size = m] : m \in 0..MinBatchSize }
    /\ hpke_config = [id |-> OurConfigId]
    /\ unaggregated_inputs = <<>>
    /\ accumulators = <<>>
    /\ helper_state = 0
    /\ request = NoRequest
    /\ helper_request = NoHelperRequest
    /\ helper_response = NoHelperResponse
    /\ result = Result("Ok", "NotRun", 0, NoOutputShare)
    /\ rounds = 0
    /\ uploads = 0
    /\ sent_inputs = EmptyBag
    /\ answered_inputs = EmptyBag
    /\ drawn = [ k \in BucketKeys |-> 0 ]
    /\ helper_state_received = 0
    /\ codec = NoCodec
    /\ lock = NoHandler
    /\ pc = [ h \in Handlers |-> "idle" ]

\* The uploads and collects of SpecCollect for a task of any min_batch_size.
SpecAnyBatchSize == InitAnyBatchSize /\ [][NextCollect]_vars

(***************************************************************************)
(* The routes of run_leader, handler by handler.  A handler is a future of *)
(* the server: it asks for the mutex, runs handle_upload or handle_collect *)
(* up to the await of the Helper's response, and goes on when the response *)
(* is in.  `request`, `helper_request`, `helper_response` and `result` are *)
(* those of the handler that holds the mutex.                              *)
(***************************************************************************)
\* Mutant of LockAcrossAwait: the guard is dropped before the await.
LockAcrossAwait_Dropped(h) == NoHandler

\* leader.rs:492-493, 508-509: the guard `leader` lives to the end of the
\* async block, so the handler holds the mutex while it awaits the Helper.
LockAcrossAwait(h) == h

\* leader.rs:492, 508: `leader.lock().await` is reached; the body of the
\* request has been decoded by then.
Arrive(h) ==
    /\ pc[h] = "idle"
    /\ pc' = [pc EXCEPT ![h] = "waiting"]
    /\ UNCHANGED <<parameters, hpke_config, unaggregated_inputs, accumulators, helper_state,
                   request, helper_request, helper_response, result, rounds, uploads,
                   sent_inputs, answered_inputs, drawn, helper_state_received, codec, lock>>

\* leader.rs:492, 508: lock() resolves once the mutex is free.
Acquire(h) ==
    /\ pc[h] = "waiting"
    /\ lock = NoHandler
    /\ lock' = h
    /\ pc' = [pc EXCEPT ![h] = "running"]
    /\ UNCHANGED <<parameters, hpke_config, unaggregated_inputs, accumulators, helper_state,
                   request, helper_request, helper_response, result, rounds, uploads,
                   sent_inputs, answered_inputs, drawn, helper_state_received, codec>>

\* leader.rs:494-498, 510-514: the handler has returned; the reply is built
\* and the guard goes out of scope.
Return(h) ==
    /\ lock' = NoHandler
    /\ pc' = [pc EXCEPT ![h] = "idle"]

\* leader.rs:262-267, 391-396: the request is out, the handler awaits.
Await(h) ==
    /\ lock' = LockAcrossAwait(h)
    /\ pc' = [pc EXCEPT ![h] = "awaiting"]

\* handle_upload, leader.rs:172-267: to its return, or to the await of the
\* Helper's /aggregate response.
RunUpload(h, report) ==
    LET error == ValidateUpload(parameters, hpke_config, report) IN
    /\ pc[h] = "running"
    /\ request' = [op |-> "upload", report |-> report, collect_request |-> NoCollectRequest]
    /\ UNCHANGED <<parameters, hpke_config, accumulators, helper_state, answered_inputs, drawn,
                   helper_state_received, codec>>
    /\ IF error # "Ok"
       THEN /\ result' = Result(error, "NotRun", 0, NoOutputShare)
            /\ helper_request' = NoHelperRequest
            /\ helper_response' = NoHelperResponse
            /\ Return(h)
            /\ UNCHANGED <<unaggregated_inputs, rounds, uploads, sent_inputs>>
       ELSE /\ uploads < MaxUploads
            /\ uploads' = uploads + 1
            /\ helper_response' = NoHelperResponse
            /\ \E inputs \in PushSorted(unaggregated_inputs, StoredInputShare(report)) :
                 /\ unaggregated_inputs' = inputs
                 /\ IF RoundDue(inputs)
                    THEN /\ helper_request' = VerifyStartRequest(parameters, helper_state, inputs)
                         /\ rounds' = rounds + 1
                         /\ sent_inputs' = SeqToBag(inputs)
                         /\ result' = Result("Pending", "NotRun", 0, NoOutputShare)
                         /\ Await(h)
                    ELSE /\ helper_request' = NoHelperRequest
                         /\ result' = Result("Ok", "NotRun", 0, NoOutputShare)
                         /\ Return(h)
                         /\ UNCHANGED <<rounds, sent_inputs>>

\* send_aggregate_request and handle_upload, leader.rs:268-367 and 229-237:
\* from the Helper's response to the return.
ReceiveAggregate(h, response) ==
    LET out == SendAggregateRequest(parameters, unaggregated_inputs, accumulators,
                                    helper_state, response) IN
    /\ pc[h] = "awaiting"
    /\ helper_request.endpoint = "aggregate"
    /\ helper_response' = response
    /\ unaggregated_inputs' = out.unaggregated_inputs
    /\ accumulators' = out.accumulators
    /\ helper_state' = out.helper_state
    /\ sent_inputs' = SeqToBag(out.unaggregated_inputs)
    /\ answered_inputs' = IF response.outcome \in {"garbled", "decoded"}
                          THEN SeqToBag(out.unaggregated_inputs)
                          ELSE answered_inputs
    /\ helper_state_received' = IF response.outcome = "decoded"
                                THEN response.helper_state
                                ELSE helper_state_received
    /\ result' = Result(SwallowRoundError(out.error), out.error, 0, NoOutputShare)
    /\ Return(h)
    /\ UNCHANGED <<parameters, hpke_config, request, helper_request, rounds, uploads, drawn,
                   codec>>

\* handle_collect, leader.rs:370-396: to its return, or to the await of the
\* Helper's /output_share response.
RunCollect(h, collect_request) ==
    LET rejection == CollectRejection(parameters, collect_request) IN
    /\ pc[h] = "running"
    /\ request' = [op |-> "collect", report |-> NoReport, collect_request |-> collect_request]
    /\ helper_response' = NoHelperResponse
    /\ UNCHANGED <<parameters, hpke_config, unaggregated_inputs, accumulators, helper_state,
                   rounds, uploads, sent_inputs, answered_inputs, drawn, helper_state_received,
                   codec>>
    /\ IF rejection # "Ok"
       THEN /\ result' = Result(rejection, "NotRun", 0, NoOutputShare)
            /\ helper_request' = NoHelperRequest
            /\ Return(h)
       ELSE /\ helper_request' = OutputShareRequest(collect_request, helper_state)
            /\ result' = Result("Pending", "NotRun", 0, NoOutputShare)
            /\ Await(h)

\* handle_collect, leader.rs:397-476: from the Helper's response to the return.
ReceiveOutputShare(h, outcome) ==
    /\ pc[h] = "awaiting"
    /\ helper_request.endpoint = "output_share"
    /\ helper_response' = Response(outcome, 0, <<>>)
    /\ Return(h)
    /\ UNCHANGED <<parameters, hpke_config, unaggregated_inputs, helper_state, request,
                   helper_request, rounds, uploads, sent_inputs, answered_inputs,
                   helper_state_received, codec>>
    /\ IF OutputShareError(outcome) # "Ok"
       THEN /\ result' = Result(OutputShareError(outcome), "NotRun", 0, NoOutputShare)
            /\ UNCHANGED <<accumulators, drawn>>
       ELSE LET out == CollectShares(parameters, accumulators, request.collect_request) IN
            /\ accumulators' = out.accumulators
            /\ result' = out.result
            /\ drawn' = IF out.result.value = "Ok"
                        THEN [ k \in DOMAIN drawn |->
                                 IF k \in PresentKeys(parameters, accumulators,
                                                      request.collect_request.batch_interval)
                                 THEN drawn[k] + 1 ELSE drawn[k] ]
                        ELSE drawn

\* The collect requests of the interleavings: over one window, over two,
\* and over an invalid interval.
InterleavedCollects ==
    { CollectRequest(OurTask, i) :
        i \in { [start |-> 2 * BatchDuration, duration |-> BatchDuration],
                [start |-> BatchDuration, duration |-> 2 * BatchDuration],
                [start |-> BatchDuration + 1, duration |-> BatchDuration] } }

\* Uploads of well-formed reports and collects, by MaxHandlers handlers at
\* a time; the Helper answers rounds faithfully or not at all.
NextLock ==
    \E h \in Handlers :
        \/ Arrive(h)
        \/ Acquire(h)
        \/ \E report \in GoodReports : RunUpload(h, report)
        \/ \E response \in AggregateResponses(helper_request, 0) :
              ReceiveAggregate(h, response)
        \/ \E collect_request \in InterleavedCollects : RunCollect(h, collect_request)
        \/ \E outcome \in HelperOutcomes : ReceiveOutputShare(h, outcome)

SpecLock == Init /\ [][NextLock]_vars

(***************************************************************************)
(* A Report through serde_json and back, as in tests::report_json_parse.   *)
(***************************************************************************)
LeaderUnchanged ==
    UNCHANGED <<parameters, hpke_config, unaggregated_inputs, accumulators, helper_state,
                request, helper_request, helper_response, result, rounds, uploads,
                sent_inputs, answered_inputs, drawn, helper_state_received, lock, pc>>

\* upload.rs:107: serde_json::to_string(&report)
ToJsonString(report) ==
    /\ codec' = [stage |-> "encoded", report |-> report, json |-> ReportToJson(report),
                 parsed |-> NotParsed]
    /\ LeaderUnchanged

\* A body that was not written by serde_json arrives.
ReceiveBody(json) ==
    /\ codec' = [stage |-> "received", report |-> NoWireReport, json |-> json,
                 parsed |-> NotParsed]
    /\ LeaderUnchanged

\* upload.rs:108: Report::from_json_reader on the JSON at hand.
ParseBody ==
    /\ codec.stage \in {"encoded", "received"}
    /\ codec' = [codec EXCEPT !.stage = IF @ = "encoded" THEN "decoded" ELSE "parsed",
                              !.parsed = FromJsonReader(codec.json)]
    /\ LeaderUnchanged

NextJson ==
    \/ \E report \in WireReports : ToJsonString(report)
    \/ \E json \in ForeignBodies : ReceiveBody(json)
    \/ ParseBody

SpecJson == Init /\ [][NextJson]_vars

(***************************************************************************)
(* Vocabulary of the properties.                                           *)
(***************************************************************************)
\* The last handler sent an /aggregate request.
RoundRan == helper_request.endpoint = "aggregate"

\* This step is a handler that sends an /aggregate request.
RoundStep == rounds' = rounds + 1

\* The Helper answered the /aggregate request with a status that is not a
\* success.
NonSuccess(response) == response.outcome \in {"problem", "status"}

\* The Helper answered with HTTP 200.
Success(response) == response.outcome \in {"garbled", "decoded"}

\* The queue entries a request was built from.
SentTimestampsAsInputs(sent) ==
    [ i \in DOMAIN sent.sub_requests |-> [timestamp |-> sent.sub_requests[i].timestamp] ]

\* C1: every accumulator has privacy_budget <= max_batch_lifetime, in every
\* state reached by uploads, rounds and collects, failed ones included.
C1_BudgetWithinLifetime ==
    \A k \in DOMAIN accumulators :
        accumulators[k].privacy_budget <= parameters.max_batch_lifetime

\* A collect has just been refused over a bucket whose budget is used up.
C1_Witness ==
    /\ request.op = "collect"
    /\ result.value = "PrivacyBudgetExceeded"
    /\ \E k \in DOMAIN accumulators :
          accumulators[k].privacy_budget = parameters.max_batch_lifetime

\* C2 as claimed: after a round that the Helper answered with a non-success
\* status, none of the entries sent in it is left in the queue.
C2_DiscardedOnNonSuccess ==
    (RoundRan /\ NonSuccess(helper_response)) => sent_inputs = EmptyBag

\* C2 as amended: a round that the Helper answers with a non-success status
\* leaves the queue holding exactly the entries it sent, in the order sent,
\* and every request carries all queued entries that were sent before.
C2_KeptOnNonSuccess ==
    [][ RoundStep =>
          /\ sent_inputs \sqsubseteq SeqToBag(SentTimestampsAsInputs(helper_request'))
          /\ NonSuccess(helper_response') =>
                /\ SubRequests(unaggregated_inputs') = helper_request'.sub_requests
                /\ sent_inputs' = SeqToBag(unaggregated_inputs')
                /\ result'.value = "Ok" ]_vars

\* A second round has failed on a non-success status: the entries of the
\* first failed round were sent again with one more.
C2_Witness ==
    /\ RoundRan
    /\ NonSuccess(helper_response)
    /\ Len(unaggregated_inputs) > UploadTrigger
    /\ rounds > 1

\* C3: after a round that got HTTP 200 the queue is empty, whatever the
\* round returned, and no queued entry has ever been in a request that got
\* HTTP 200, so no later request carries one.
C3_DrainedOnSuccess ==
    /\ answered_inputs = EmptyBag
    /\ (RoundRan /\ Success(helper_response)) =>
          /\ unaggregated_inputs = <<>>
          /\ result.round \in {"Ok", "HttpClient", "AggregateProtocol", "JsonParse", "Vdaf"}

\* A round got HTTP 200 and then failed on a verification message.
C3_Witness ==
    /\ RoundRan
    /\ helper_response.outcome = "decoded"
    /\ result.round = "JsonParse"
    /\ unaggregated_inputs = <<>>

\* C4 as claimed: the sub-requests of every VerifyStartRequest are strictly
\* increasing in (time, nonce).
C4_StrictlyIncreasing ==
    RoundRan =>
        \A i \in 1..(Len(helper_request.sub_requests) - 1) :
            TimestampLess(helper_request.sub_requests[i].timestamp,
                          helper_request.sub_requests[i + 1].timestamp)

\* The decoded response breaks I1: another count, or another timestamp at
\* some position.
ViolatesI1(sent, response) ==
    \/ Len(response.sub_responses) # Len(sent.sub_requests)
    \/ \E i \in DOMAIN sent.sub_requests :
          response.sub_responses[i].timestamp # sent.sub_requests[i].timestamp

\* The positions of a response whose verification message is m.
PositionsWith(response, m) ==
    { i \in DOMAIN response.sub_responses : response.sub_responses[i].verification_message = m }

Contributions(accs, k) == IF k \in DOMAIN accs THEN accs[k].contributions ELSE 0

RECURSIVE SumContributions(_, _)
SumContributions(accs, keys) ==
    IF keys = {} THEN 0
    ELSE LET k == CHOOSE x \in keys : TRUE
         IN Contributions(accs, k) + SumContributions(accs, keys \ {k})

TotalContributions(accs) == SumContributions(accs, DOMAIN accs)

\* The positions of a request that fall into batch window k.
PositionsIn(sent, k) ==
    { i \in DOMAIN sent.sub_requests :
        IntervalStart(sent.sub_requests[i].timestamp.time, parameters.min_batch_duration) = k }

\* C5 as claimed: a decoded response that breaks I1 makes the round return
\* AggregateProtocol and leaves every accumulator as it was before the round.
C5_AbortLeavesStore ==
    [][ (RoundStep /\ helper_response'.outcome = "decoded"
                   /\ ViolatesI1(helper_request', helper_response')) =>
          /\ result'.round = "AggregateProtocol"
          /\ accumulators' = accumulators ]_vars

\* C6 as claimed: in a round whose sub-responses match in count and order,
\* with one verification message malformed and the others valid, every
\* report but that one is folded.
C6_OnlyMalformedDropped ==
    [][ (RoundStep /\ helper_response'.outcome = "decoded"
                   /\ ~ViolatesI1(helper_request', helper_response')
                   /\ Cardinality(PositionsWith(helper_response', "malformed")) = 1
                   /\ PositionsWith(helper_response', "valid") \cup
                        PositionsWith(helper_response', "malformed") =
                          DOMAIN helper_response'.sub_responses) =>
          /\ result'.value = "Ok"
          /\ TotalContributions(accumulators') =
                TotalContributions(accumulators) + Len(helper_request'.sub_requests) - 1 ]_vars

\* C7: in a round whose sub-responses match in count and order and whose
\* verification messages all decode and combine, the reports whose
\* prepare_finish fails are skipped and nothing else: the round and the
\* upload return Ok, the queue is drained, and every batch window gains
\* exactly the reports of the round in it whose prepare_finish succeeded.
C7_ProofFailureSkipped ==
    [][ (RoundStep /\ helper_response'.outcome = "decoded"
                   /\ ~ViolatesI1(helper_request', helper_response')
                   /\ PositionsWith(helper_response', "valid") \cup
                        PositionsWith(helper_response', "invalidProof") =
                          DOMAIN helper_response'.sub_responses) =>
          /\ result'.round = "Ok"
          /\ result'.value = "Ok"
          /\ unaggregated_inputs' = <<>>
          /\ TotalContributions(accumulators') =
                TotalContributions(accumulators)
                  + Cardinality(PositionsWith(helper_response', "valid"))
          /\ \A k \in BucketKeys :
                Contributions(accumulators', k) =
                  Contributions(accumulators, k)
                    + Cardinality(PositionsIn(helper_request', k)
                                    \cap PositionsWith(helper_response', "valid")) ]_vars

\* A round returned Ok although prepare_finish failed for a report that was
\* not the last one, and the reports after it were folded.
C7_Witness ==
    /\ RoundRan
    /\ result.round = "Ok"
    /\ \E i \in DOMAIN helper_response.sub_responses :
          /\ i < Len(helper_response.sub_responses)
          /\ helper_response.sub_responses[i].verification_message = "invalidProof"
    /\ TotalContributions(accumulators) = Len(helper_request.sub_requests) - 1

\* This step is a handle_collect of a request with a valid interval.
ValidCollectStep ==
    /\ request'.op = "collect"
    /\ ValidateBatchInterval(parameters, request'.collect_request.batch_interval)

\* The present windows of the interval of the request being handled, in the
\* state before the step.
Present == PresentKeys(parameters, accumulators, request'.collect_request.batch_interval)

\* Before the step, a present window of the interval has its budget used up.
SomeBudgetUsedUp ==
    \E k \in Present : accumulators[k].privacy_budget = parameters.max_batch_lifetime

\* C8 as claimed: a collect over a valid interval that holds a present
\* bucket with privacy_budget = max_batch_lifetime fails with
\* PrivacyBudgetExceeded.
C8_ExceededWheneverUsedUp ==
    [][ (ValidCollectStep /\ SomeBudgetUsedUp) =>
          result'.value = "PrivacyBudgetExceeded" ]_vars

\* C8 as amended: a collect fails with PrivacyBudgetExceeded exactly when
\* its interval is valid, the Helper's /output_share came back decoded and
\* a present bucket of the interval has privacy_budget = max_batch_lifetime.
\* No bucket is drawn by more successful collects than max_batch_lifetime,
\* nor by more than its privacy_budget shows; a successful collect draws
\* every present bucket of its interval.
C8_ExceededIffUsedUpAndHelperOk ==
    [][ /\ request'.op = "collect" =>
              /\ result'.value = "PrivacyBudgetExceeded" <=>
                    /\ ValidCollectStep
                    /\ helper_response'.outcome = "decoded"
                    /\ SomeBudgetUsedUp
              /\ \A k \in DOMAIN accumulators' :
                    /\ drawn'[k] <= accumulators'[k].privacy_budget
                    /\ drawn'[k] <= parameters.max_batch_lifetime
              /\ result'.value = "Ok" =>
                    /\ Present # {}
                    /\ \A k \in Present : drawn'[k] = drawn[k] + 1 ]_vars

\* A bucket has been drawn max_batch_lifetime times and a further collect
\* over it has just been refused.
C8_Witness ==
    /\ request.op = "collect"
    /\ result.value = "PrivacyBudgetExceeded"
    /\ \E k \in DOMAIN accumulators : drawn[k] = parameters.max_batch_lifetime

\* The contributions of the present windows of the interval, before the step.
PresentContributions == SumContributions(accumulators, Present)

\* The step charges every present window of the interval once and changes
\* nothing else in the store.
ChargedOnce ==
    /\ DOMAIN accumulators' = DOMAIN accumulators
    /\ \A k \in DOMAIN accumulators :
          accumulators'[k] =
            IF k \in Present THEN [accumulators[k] EXCEPT !.privacy_budget = @ + 1]
            ELSE accumulators[k]

\* C9 as claimed: a collect over a valid interval with no present bucket at
\* max_batch_lifetime and fewer than min_batch_size contributions in its
\* present buckets fails with InsufficientBatchSize carrying their sum, and
\* every present bucket of the interval has been charged once.
C9_InsufficientCharges ==
    [][ (ValidCollectStep /\ ~SomeBudgetUsedUp
           /\ PresentContributions < parameters.min_batch_size) =>
          /\ result'.value = "InsufficientBatchSize"
          /\ result'.total = PresentContributions
          /\ ChargedOnce ]_vars

\* C9 as amended: the same, for a collect whose /output_share request the
\* Helper answered with a decoded success response.
C9_InsufficientChargesAfterHelperOk ==
    [][ (ValidCollectStep /\ helper_response'.outcome = "decoded" /\ ~SomeBudgetUsedUp
           /\ PresentContributions < parameters.min_batch_size) =>
          /\ result'.value = "InsufficientBatchSize"
          /\ result'.total = PresentContributions
          /\ ChargedOnce ]_vars

\* A collect has failed with InsufficientBatchSize(1) and its bucket stays
\* charged.
C9_Witness ==
    /\ request.op = "collect"
    /\ result.value = "InsufficientBatchSize"
    /\ result.total = 1
    /\ \E k \in DOMAIN accumulators :
          /\ accumulators[k].contributions = 1
          /\ accumulators[k].privacy_budget = 1

\* C10 as claimed: a collect for a task that is not the Leader's returns
\* UnrecognizedTask, asks the Helper nothing, produces no output share and
\* charges no budget.
C10_ForeignTaskRejected ==
    [][ (request'.op = "collect"
           /\ request'.collect_request.task_id # parameters.task_id) =>
          /\ result'.value = "UnrecognizedTask"
          /\ helper_request'.endpoint = "none"
          /\ result'.output_share = NoOutputShare
          /\ accumulators' = accumulators ]_vars

\* C11: a collect whose batch interval fails validate_batch_interval returns
\* InvalidBatchInterval, sends nothing to the Helper and leaves the queue,
\* the accumulators with their budgets and helper_state as they were.
C11_InvalidIntervalRejected ==
    [][ (request'.op = "collect"
           /\ ~ValidateBatchInterval(parameters, request'.collect_request.batch_interval)) =>
          /\ result'.value = "InvalidBatchInterval"
          /\ helper_request'.endpoint = "none"
          /\ helper_response'.outcome = "none"
          /\ UNCHANGED <<unaggregated_inputs, accumulators, helper_state>> ]_vars

\* A collect over an interval whose start lies inside a populated batch
\* window has been refused.
C11_Witness ==
    /\ request.op = "collect"
    /\ result.value = "InvalidBatchInterval"
    /\ request.collect_request.batch_interval.start % parameters.min_batch_duration # 0
    /\ IntervalStart(request.collect_request.batch_interval.start,
                     parameters.min_batch_duration) \in DOMAIN accumulators

\* The handlers that are inside handle_upload or handle_collect.
Inside == { h \in Handlers : pc[h] \in {"running", "awaiting"} }

\* The Leader's mutable state.
LeaderState == <<unaggregated_inputs, accumulators, helper_state>>

\* C12: in every interleaving of uploads and collects at most one handler
\* is inside a handler body, and it is the one that holds the mutex; a
\* handler holds the mutex from its entry to its return, also while it
\* awaits the Helper; and the Leader's state changes only in steps of the
\* handler that holds the mutex, so it stands still while that handler
\* awaits.
C12_OneHandlerAtATime ==
    /\ [](/\ Cardinality(Inside) <= 1
          /\ \A h \in Handlers : h \in Inside <=> lock = h)
    /\ [][ /\ \A h \in Handlers :
                 (pc[h] = "awaiting" /\ pc'[h] = "awaiting") => LeaderState' = LeaderState
           /\ LeaderState' # LeaderState =>
                 \E h \in Handlers : lock = h /\ pc[h] \in {"running", "awaiting"}
                                        /\ (\A g \in Handlers \ {h} : pc'[g] = pc[g]) ]_vars

\* A handler awaits the Helper's /aggregate response with the queue full
\* while another handler waits for the mutex.
C12_Witness ==
    \E h, g \in Handlers :
        /\ pc[h] = "awaiting"
        /\ helper_request.endpoint = "aggregate"
        /\ Len(unaggregated_inputs) >= UploadTrigger
        /\ pc[g] = "waiting"

\* C13 as claimed: every VerifyStartRequest and OutputShareRequest carries
\* the helper_state of the most recent /aggregate response that came back
\* with HTTP 200 and was decoded (empty before the first), and a round
\* whose response is decoded leaves that helper_state in the Leader, also
\* when it then aborts.
C13_CarriesLatestHelperState ==
    [][ /\ helper_request'.endpoint # "none" =>
              helper_request'.helper_state = helper_state_received
        /\ (RoundStep /\ helper_response'.outcome = "decoded") =>
              helper_state' = helper_response'.helper_state ]_vars

\* The report of the upload being handled passes the checks of handle_upload.
AcceptedUploadStep ==
    /\ request'.op = "upload"
    /\ ValidateUpload(parameters, hpke_config, request'.report) = "Ok"

\* C14: an upload that passes validation, decryption and preparation has
\* its entry added to the queue and returns Ok, whether no round runs or
\* the round it triggers ends with the Helper unreachable, a non-success
\* status, an AggregateProtocol error or a decode failure.
C14_AcceptedUploadReturnsOk ==
    [][ AcceptedUploadStep =>
          /\ result'.value = "Ok"
          /\ SeqToBag(Append(unaggregated_inputs, StoredInputShare(request'.report))) =
                IF RoundStep THEN SeqToBag(SentTimestampsAsInputs(helper_request'))
                ELSE SeqToBag(unaggregated_inputs')
          /\ RoundStep => result'.round \in {"Ok", "HttpClient", "HelperError", "HelperHttpRequest",
                                               "AggregateProtocol", "JsonParse", "Vdaf"} ]_vars

\* An upload has returned Ok although the round it triggered found the
\* Helper's response out of order.
C14_Witness ==
    /\ request.op = "upload"
    /\ RoundRan
    /\ result.round = "AggregateProtocol"
    /\ result.value = "Ok"

\* C15: an accepted upload runs a round exactly when the queue with its
\* entry in it has at least 10 entries; the request of the round carries
\* the whole queue, so at least 10 sub-requests; an upload that leaves
\* fewer than 10 entries sends nothing to the Helper and changes no
\* accumulator.
C15_RoundIffTenPending ==
    [][ AcceptedUploadStep =>
          /\ RoundStep <=> Len(unaggregated_inputs) + 1 >= 10
          /\ RoundStep <=> helper_request'.endpoint = "aggregate"
          /\ RoundStep =>
                /\ Len(helper_request'.sub_requests) = Len(unaggregated_inputs) + 1
                /\ Len(helper_request'.sub_requests) >= 10
          /\ ~RoundStep =>
                /\ Len(unaggregated_inputs') = Len(unaggregated_inputs) + 1
                /\ Len(unaggregated_inputs') < 10
                /\ helper_request'.endpoint = "none"
                /\ accumulators' = accumulators ]_vars

\* The tenth upload has run the first round, with ten sub-requests, and
\* the nine uploads before it ran none.
C15_Witness ==
    /\ request.op = "upload"
    /\ RoundRan
    /\ uploads = 10
    /\ rounds = 1
    /\ Len(helper_request.sub_requests) = 10

\* The merge of the accumulated shares of the buckets `keys`.
RECURSIVE MergedOver(_, _)
MergedOver(accs, keys) ==
    IF keys = {} THEN EmptyBag
    ELSE LET k == CHOOSE x \in keys : TRUE
         IN accs[k].accumulated (+) MergedOver(accs, keys \ {k})

\* C16: a collect that succeeds returns an OutputShare whose contributions
\* is the sum of the contributions of the buckets of the interval that are
\* in the store (the missing ones add nothing), which is at least
\* min_batch_size, and whose sum is the merge of the accumulated shares of
\* exactly those buckets, one summand per contribution.
C16_OutputShareOfPresentBuckets ==
    [][ (request'.op = "collect" /\ result'.value = "Ok") =>
          /\ result'.output_share.contributions = PresentContributions
          /\ PresentContributions >= parameters.min_batch_size
          /\ result'.output_share.sum = MergedOver(accumulators, Present)
          /\ BagCardinality(result'.output_share.sum) = PresentContributions ]_vars

\* A collect over two populated batch windows has succeeded.
C16_Witness ==
    /\ request.op = "collect"
    /\ result.value = "Ok"
    /\ Cardinality(PresentKeys(parameters, accumulators,
                               request.collect_request.batch_interval)) = 2
    /\ result.output_share.contributions = 10

\* The HTTP status the taxonomy gives to each kind of problem document.
TaxonomyStatus(kind) ==
    CASE kind \in {"unrecognizedMessage", "unrecognizedTask", "outdatedConfig",
                   "invalidBatchInterval", "insufficientBatchSize",
                   "privacyBudgetExceeded"} -> 400
      [] kind \in {"helperError", "unknownError"} -> 500
      [] OTHER -> 0

\* C17 as claimed: the reply to a handler that returned an error is a
\* problem document whose status is the one the taxonomy gives to its
\* kind: 400 for the six client kinds, 500 for helperError and
\* unknownError; a Helper failure on /output_share gives helperError.
C17_TaxonomyFollowed ==
    result.value \notin {"Ok", "Pending", "Panic"} =>
        /\ result.problem.status = TaxonomyStatus(result.problem.kind)
        /\ (request.op = "collect" /\ result.value \in {"HelperError", "HelperHttpRequest"}) =>
              result.problem.kind = "helperError"

\* C18 as claimed: every report handed to handle_upload has exactly two
\* encrypted input shares, and handle_upload ends with Ok or with an Error,
\* never by unwinding from an index out of bounds.
C18_TwoSharesAlways ==
    request.op = "upload" =>
        /\ request.report.encrypted_input_shares = 2
        /\ result.value # "Panic"

\* C19: every key of the accumulators is an exact multiple of
\* min_batch_duration, and every report folded into the bucket with key k
\* has a time t with k = t - (t mod min_batch_duration).
C19_BucketsAligned ==
    \A k \in DOMAIN accumulators :
        /\ k % parameters.min_batch_duration = 0
        /\ \A ts \in BagToSet(accumulators[k].accumulated) :
              k = ts.time - (ts.time % parameters.min_batch_duration)

\* A round has folded reports of two batch windows, none of them with a
\* time that is a multiple of min_batch_duration.
C19_Witness ==
    /\ Cardinality(DOMAIN accumulators) = 2
    /\ \A k \in DOMAIN accumulators :
          /\ accumulators[k].contributions > 0
          /\ \A ts \in BagToSet(accumulators[k].accumulated) :
                ts.time % parameters.min_batch_duration # 0

\* C20: decoding the JSON encoding of a Report with from_json_reader
\* succeeds and yields a Report equal to the one encoded, field by field.
C20_ReportRoundTrip ==
    codec.stage = "decoded" =>
        /\ codec.parsed.ok
        /\ codec.parsed.value = codec.report

\* A Report with two extensions and two shares has been encoded and
\* decoded.
C20_Witness ==
    /\ codec.stage = "decoded"
    /\ codec.parsed.ok
    /\ Len(codec.report.extensions) = 2
    /\ Len(codec.report.encrypted_input_shares) = 2
    /\ codec.report.time = 1001

\* C21: a collect over a valid interval sends its OutputShareRequest to the
\* Helper whatever the budgets are; when the exchange fails (send fails, a
\* non-success status, a body that does not decode) the collect returns
\* the error of the exchange, which reaches the Collector as a problem
\* document, and every accumulator is as it was.
C21_HelperAskedBeforeBudgets ==
    [][ ValidCollectStep =>
          /\ helper_request' = OutputShareRequest(request'.collect_request, helper_state)
          /\ helper_response'.outcome # "decoded" =>
                /\ result'.value =
                      CASE helper_response'.outcome \in {"unreachable", "garbled"} -> "HttpClient"
                        [] helper_response'.outcome = "problem" -> "HelperError"
                        [] helper_response'.outcome = "status" -> "HelperHttpRequest"
                /\ result'.problem.status \in {400, 500}
                /\ accumulators' = accumulators ]_vars

\* A collect over a bucket that holds enough contributions and has budget
\* left has failed because the Helper answered with a problem document.
C21_Witness ==
    /\ request.op = "collect"
    /\ result.value = "HelperError"
    /\ \E k \in PresentKeys(parameters, accumulators, request.collect_request.batch_interval) :
          /\ accumulators[k].contributions >= parameters.min_batch_size
          /\ accumulators[k].privacy_budget = 0

\* C22: an upload that does not return Ok leaves the queue, the
\* accumulators and helper_state as they were and sends nothing to the
\* Helper.  A report for another task is refused with unrecognizedTask
\* whatever else is wrong with it; then a Leader share for another HPKE
\* config with outdatedConfig; then a share that does not open or does not
\* decode with unrecognizedMessage; then one that the VDAF does not
\* prepare.
C22_RejectedUploadChangesNothing ==
    [][ request'.op = "upload" =>
          LET report == request'.report
              two_shares == report.encrypted_input_shares = 2
              ours == report.task_id = parameters.task_id
              current == report.aggregator_config_id = hpke_config.id
          IN /\ result'.value # "Ok" =>
                   /\ LeaderState' = LeaderState
                   /\ helper_request'.endpoint = "none"
                   /\ rounds' = rounds
             /\ ~ours =>
                   /\ result'.value = "UnrecognizedTask"
                   /\ result'.problem.kind = "unrecognizedTask"
             /\ (two_shares /\ ours /\ ~current) =>
                   /\ result'.value = "UnknownHpkeConfig"
                   /\ result'.problem.kind = "outdatedConfig"
             /\ (two_shares /\ ours /\ current
                    /\ report.leader_share \in {"undecryptable", "undecodable"}) =>
                   /\ result'.value \in {"Encryption", "JsonParse"}
                   /\ result'.problem.kind = "unrecognizedMessage"
             /\ (two_shares /\ ours /\ current /\ report.leader_share = "unpreparable") =>
                   result'.value = "Vdaf"
             /\ (two_shares /\ ours /\ current /\ report.leader_share = "good") =>
                   result'.value = "Ok" ]_vars

\* A report for another task, with a stale config id and a share that
\* does not open, has been refused with UnrecognizedTask while entries
\* were pending.
C22_Witness ==
    /\ request.op = "upload"
    /\ result.value = "UnrecognizedTask"
    /\ request.report.aggregator_config_id = StaleConfigId
    /\ request.report.leader_share = "undecryptable"
    /\ Len(unaggregated_inputs) > 0

\* A handler awaits the Helper's answer to an /aggregate request.
AwaitingAggregate ==
    \E h \in Handlers : pc[h] = "awaiting" /\ helper_request.endpoint = "aggregate"

\* C23: from the moment a VerifyStartRequest is built to the moment its
\* response is in, the queue holds exactly the entries of its sub-requests,
\* in their order, whatever other handlers have arrived meanwhile; so a
\* round that gets HTTP 200 takes exactly the entries it sent, leaves the
\* queue empty, and pairs every sub-response with the entry at its
\* position.
C23_TakenIsSent ==
    /\ [](AwaitingAggregate =>
             SubRequests(unaggregated_inputs) = helper_request.sub_requests)
    /\ [][ (AwaitingAggregate /\ helper_response'.outcome \in {"garbled", "decoded"}) =>
             /\ SubRequests(unaggregated_inputs) = helper_request.sub_requests
             /\ unaggregated_inputs' = <<>>
             /\ result'.round = "Ok" =>
                   \A k \in BucketKeys :
                       Contributions(accumulators', k) =
                         Contributions(accumulators, k)
                           + Cardinality(PositionsIn(helper_request, k)) ]_vars

\* A round has taken and folded its ten entries while another upload was
\* waiting for the mutex.
C23_Witness ==
    /\ RoundRan
    /\ helper_response.outcome = "decoded"
    /\ result.round = "Ok"
    /\ unaggregated_inputs = <<>>
    /\ TotalContributions(accumulators) = Len(helper_request.sub_requests)
    /\ \E g \in Handlers : pc[g] = "waiting"

\* C24 as claimed: a collect that ends with an error other than
\* InsufficientBatchSize leaves the privacy_budget of every accumulator as
\* it was before the request.
C24_FailedCollectChargesNothing ==
    [][ (request'.op = "collect" /\ result'.value \notin {"Ok", "InsufficientBatchSize"}) =>
          /\ DOMAIN accumulators' = DOMAIN accumulators
          /\ \A k \in DOMAIN accumulators :
                accumulators'[k].privacy_budget = accumulators[k].privacy_budget ]_vars

\* C25 as claimed: once the privacy_budget of a bucket is at least 1, its
\* accumulated share and its contributions never change again.
C25_CollectedBucketFrozen ==
    [][ \A k \in DOMAIN accumulators :
          accumulators[k].privacy_budget >= 1 =>
            /\ k \in DOMAIN accumulators'
            /\ accumulators'[k].accumulated = accumulators[k].accumulated
            /\ accumulators'[k].contributions = accumulators[k].contributions ]_vars

\* C26: in every reachable state the contributions of all accumulators plus
\* the length of the queue are at most the number of uploads that returned
\* success; no step removes an accumulator or lowers the contributions or
\* the privacy_budget of one.
C26_NothingCountedTwice ==
    /\ [](TotalContributions(accumulators) + Len(unaggregated_inputs) <= uploads)
    /\ [][ \A k \in DOMAIN accumulators :
              /\ k \in DOMAIN accumulators'
              /\ accumulators'[k].contributions >= accumulators[k].contributions
              /\ accumulators'[k].privacy_budget >= accumulators[k].privacy_budget ]_vars

\* A round has folded fewer reports than were uploaded, and a collect has
\* charged a bucket since.
C26_Witness ==
    /\ rounds >= 1
    /\ unaggregated_inputs = <<>>
    /\ accumulators # <<>>
    /\ TotalContributions(accumulators) < uploads
    /\ request.op = "collect"
    /\ \E k \in DOMAIN accumulators : accumulators[k].privacy_budget >= 1

\* C27 as claimed: whatever min_batch_size the task has, 0 included, every
\* accumulator has contributions of at least 1 and no collect reaches the
\* merge with an empty list of snapshots, so that every collect ends with a
\* response or an error value.
C27_MergeNeverEmpty ==
    /\ \A k \in DOMAIN accumulators : accumulators[k].contributions >= 1
    /\ request.op = "collect" => result.value # "Panic"

====
